---- MODULE Spec2Model ----
(***************************************************************************)
(* A model of the Dashboard-App backend's access-control core:             *)
(*   - toollinks: ToolLink rows, the personal/shared visibility rule, the  *)
(*     queryset scoping and the permission class of ToolLinkViewSet;       *)
(*   - workspace_teams: teams, memberships, invites and join requests.     *)
(*   - users: the update of a user row on authentication;                  *)
(*   - workspace_tasks: tasks, their status timestamps, task templates;    *)
(*   - workspace_documents: the status of a document.                      *)
(* Every action is one HTTP request (or one Django-admin action) handled   *)
(* from start to end; lastOp is the request just handled and the response  *)
(* it got.                                                                 *)
(***************************************************************************)
EXTENDS Integers, FiniteSets, Sequences, TLC

\* ---------------------------------------------------------------- bounds
MaxTools == 2
\* invite rows created in a run
MaxInvites == 1
\* the clock advances TickDays at a time, up to MaxNow (days)
TickDays == 4
MaxNow == 12
\* favorite rows created in a run
MaxFavIds == 3
\* task rows created in a run
MaxTasks == 2
\* task template rows created in a run
MaxTemplates == 1
\* document rows created in a run
MaxDocs == 2

\* ------------------------------------------------------- program constants
\* timedelta(days=7): the life of an invite
InviteDays == 7

\* ------------------------------------------------------------ principals
\* The user rows (users.User).  Ids are primary keys.
Users == {1, 2, 3}
\* The user the admin actions make_admin / remove_admin are applied to, and the
\* user whose is_staff / is_superuser the Django admin change form edits.
AdminActionUsers == {1}
OperatorUsers == {2}
\* The principals that send requests to the tools API in the model
ToolPrincipals == {1, 2}

ToolIds == 1..MaxTools
NoTool == [absent |-> TRUE]
NoId == 0

\* The team rows a run can hold: the deployment's single team, pk 1
\* (add_member's default team_id).
Teams == {1}
InviteIds == 1..MaxInvites
NoInvite == [absent |-> TRUE]

\* users.User.email of each user row
EmailOf(u) == CASE u = 1 -> "ann@x.io" [] u = 2 -> "Bob@x.io" [] OTHER -> "cy@x.io"
\* the addresses an inviter types
InviteEmails == {"ann@x.io", "bob@x.io", "BOB@x.io"}
\* str.lower() on the addresses of the model
Lower(e) ==
    CASE e = "Bob@x.io" -> "bob@x.io"
      [] e = "BOB@x.io" -> "bob@x.io"
      [] OTHER -> e

VARIABLES
    users,       \* users.User: id -> [is_admin, is_superuser, is_staff]
    tools,       \* tool_links: id -> row, or NoTool
    nextToolId,  \* the BigAutoField sequence of tool_links
    lastOp,      \* the request handled last, with its response
    teams,       \* teams: the pks of the Team rows
    members,     \* team_members: <<team, user>> -> role, or "none"
    invites,     \* team_invites: id -> row, or NoInvite
    nextInviteId,\* the sequence of team_invites
    joinRequests,\* team_join_requests: <<team, user>> -> status, or "none"
    now,         \* timezone.now(), in days
    favorites,   \* tool_favorites: the set of rows [id, user, tool, order]
    nextFavId,   \* the sequence of tool_favorites; ids follow created_at
    favHist,     \* history: per user, the order values toggle_favorite
                 \* has assigned
    favProc,     \* the favorites requests in flight, per worker
    tasks,       \* tasks: id -> row, or NoTask
    nextTaskId,  \* the sequence of tasks
    templates,   \* task_templates: id -> row, or NoTemplate
    documents,   \* documents: id -> status, or "none"
    docJobs      \* the documents process_document is working on

toolVars == <<tools, nextToolId>>
inviteVars == <<invites, nextInviteId>>
teamVars == <<teams, members, invites, nextInviteId, joinRequests, now>>
favVars == <<favorites, nextFavId, favHist, favProc>>
taskVars == <<tasks, nextTaskId, templates>>
docVars == <<documents, docJobs>>
vars == <<users, tools, nextToolId, lastOp, teams, members, invites,
          nextInviteId, joinRequests, now, favorites, nextFavId, favHist,
          favProc, tasks, nextTaskId, templates, documents, docJobs>>

\* ------------------------------------------------------------- responses
NoBody == [none |-> TRUE]

\* op: the operation, actor: request.user.id, target: the pk in the URL,
\* status: the HTTP status of the response, pre: the row pk named before the
\* request, body: request.data, result: the ids in a list response.
Resp(op, actor, target, status) ==
    [op |-> op, actor |-> actor, target |-> target, status |-> status,
     pre |-> NoTool, body |-> NoBody, result |-> {}, error |-> ""]

\* an error response: Response({'error': error}, status=status)
RespError(op, actor, target, status, error) ==
    [op |-> op, actor |-> actor, target |-> target, status |-> status,
     pre |-> NoTool, body |-> NoBody, result |-> {}, error |-> error]

RespPre(op, actor, target, status, pre) ==
    [op |-> op, actor |-> actor, target |-> target, status |-> status,
     pre |-> pre, body |-> NoBody, result |-> {}, error |-> ""]

RespBody(op, actor, target, status, pre, body) ==
    [op |-> op, actor |-> actor, target |-> target, status |-> status,
     pre |-> pre, body |-> body, result |-> {}, error |-> ""]

\* a response with data: Response(data, status=status); pre is what the
\* request found before it wrote
RespData(op, actor, target, status, pre, data) ==
    [op |-> op, actor |-> actor, target |-> target, status |-> status,
     pre |-> pre, body |-> data, result |-> {}, error |-> ""]

RespList(op, actor, status, result) ==
    [op |-> op, actor |-> actor, target |-> NoId, status |-> status,
     pre |-> NoTool, body |-> NoBody, result |-> result, error |-> ""]

\* ----------------------------------------------------------- role resolver
\* user.is_admin or user.is_superuser or user.is_staff
IsPrivileged(u) ==
    users[u].is_admin \/ users[u].is_superuser \/ users[u].is_staff

\* ------------------------------------------------- ToolLink write pipeline
\* ToolLink.save(): the override forces is_personal for a non-admin creator.
ToolLink_save(row) ==
    IF ~IsPrivileged(row.created_by) /\ ~row.is_personal
    THEN [row EXCEPT !.is_personal = TRUE]
    ELSE row

\* pre_save signal
force_personal_tools_before_save(row) ==
    IF ~IsPrivileged(row.created_by) /\ ~row.is_personal
    THEN [row EXCEPT !.is_personal = TRUE]
    ELSE row

\* post_save signal: corrects the stored row in place
ensure_personal_tools_after_save(row) ==
    IF ~IsPrivileged(row.created_by) /\ ~row.is_personal
    THEN [row EXCEPT !.is_personal = TRUE]
    ELSE row

\* save() as models.Model.save alone: no override, no signal receivers
PersistToolUnchecked(row) == row

\* instance.save(): override, then pre_save, the INSERT/UPDATE, then post_save.
\* The value is the row as stored when save() returns.
PersistTool(row) ==
    ensure_personal_tools_after_save(
        force_personal_tools_before_save(ToolLink_save(row)))

\* ---------------------------------------------------- ToolLinkSerializer
\* Request bodies and validated_data are dicts: functions over the keys present.
ToolCreateBodies ==
    { [is_active |-> a] : a \in BOOLEAN } \cup
    { [is_personal |-> q, is_active |-> a] : q \in BOOLEAN, a \in BOOLEAN }

\* PUT bodies; a PUT that leaves a field out acts as a PUT repeating its value
ToolPutBodies ==
    { [is_personal |-> q, is_active |-> a] : q \in BOOLEAN, a \in BOOLEAN }

Has(data, key) == key \in DOMAIN data

\* data[key] = value, adding the key when it is missing
Put(data, key, value) ==
    [k \in DOMAIN data \cup {key} |-> IF k = key THEN value ELSE data[k]]

\* ToolLinkSerializer.validate on a create (self.instance is None)
Serializer_validate(user, data) ==
    IF ~IsPrivileged(user) THEN Put(data, "is_personal", TRUE) ELSE data

\* ToolLinkSerializer.create: the row stored when create() returns
Serializer_create(user, validated_data) ==
    LET d1 == IF Has(validated_data, "is_active") THEN validated_data
              ELSE Put(validated_data, "is_active", TRUE)
        d2 == IF ~IsPrivileged(user)
              THEN Put(Put(d1, "is_personal", TRUE), "created_by", user)
              ELSE LET c == IF Has(d1, "created_by") THEN d1
                            ELSE Put(d1, "created_by", user)
                   IN IF Has(c, "is_personal") THEN c
                      ELSE Put(c, "is_personal", FALSE)
        instance == PersistTool([created_by  |-> d2["created_by"],
                                 is_personal |-> d2["is_personal"],
                                 is_active   |-> d2["is_active"]])
    IN IF ~IsPrivileged(user)
          /\ (~instance.is_personal \/ instance.created_by # user)
       THEN PersistTool([instance EXCEPT !.is_personal = TRUE,
                                         !.created_by = user])
       ELSE instance

\* ToolLinkViewSet.perform_create: serializer.save(**kwargs) and the re-check
perform_create(user, validated_data) ==
    IF ~IsPrivileged(user)
    THEN LET instance ==
                 Serializer_create(user,
                     Put(Put(validated_data, "created_by", user),
                         "is_personal", TRUE))
         IN IF ~instance.is_personal
            THEN [instance EXCEPT !.is_personal = TRUE]
            ELSE instance
    ELSE Serializer_create(user, Put(validated_data, "created_by", user))

\* ModelSerializer.update on a PUT: set the fields given, then instance.save()
Serializer_update(row, data) ==
    PersistTool([created_by  |-> row.created_by,
                 is_personal |-> IF Has(data, "is_personal")
                                 THEN data["is_personal"] ELSE row.is_personal,
                 is_active   |-> IF Has(data, "is_active")
                                 THEN data["is_active"] ELSE row.is_active])

\* ------------------------------------------------------ IsAdminOrReadOnly
SAFE_METHODS == {"GET", "HEAD", "OPTIONS"}

\* toollinks.views.IsAdminOrReadOnly.has_permission (the user is authenticated)
has_permission(user, method) ==
    IF method \in SAFE_METHODS THEN TRUE
    ELSE IF IsPrivileged(user) THEN TRUE
    ELSE IF method = "POST" THEN TRUE
    ELSE FALSE

\* toollinks.views.IsAdminOrReadOnly.has_object_permission
has_object_permission(user, method, action, row) ==
    IF method \in SAFE_METHODS THEN TRUE
    ELSE IF action = "toggle_favorite" THEN TRUE
    ELSE IF IsPrivileged(user) THEN TRUE
    ELSE IF row.created_by = user THEN TRUE
    ELSE IF row.is_personal /\ row.created_by = user THEN TRUE
    ELSE FALSE

\* ------------------------------------------- ToolLinkViewSet.get_queryset
Exists(t) == tools[t] # NoTool

\* the edit queryset with the is_active condition on shared tools left out
EditQuerysetAllShared(user) ==
    { t \in ToolIds : Exists(t) /\
        ( ~tools[t].is_personal \/ tools[t].created_by = user ) }

EditQueryset(user) ==
    { t \in ToolIds : Exists(t) /\
        ( (~tools[t].is_personal /\ tools[t].is_active)
          \/ (tools[t].is_personal /\ tools[t].created_by = user)
          \/ tools[t].created_by = user ) }

\* the retrieve queryset with the is_active filter left out
RetrieveQuerysetAnyActive(user) ==
    { t \in ToolIds : Exists(t) /\
        ( ~tools[t].is_personal
          \/ (tools[t].is_personal /\ tools[t].created_by = user) ) }

RetrieveQueryset(user) ==
    { t \in ToolIds : Exists(t) /\ tools[t].is_active /\
        ( ~tools[t].is_personal
          \/ (tools[t].is_personal /\ tools[t].created_by = user) ) }

\* the list queryset with the is_personal filter left out
ListQuerysetAllActive ==
    { t \in ToolIds : Exists(t) /\ tools[t].is_active }

ListQueryset ==
    { t \in ToolIds : Exists(t) /\ tools[t].is_active /\ ~tools[t].is_personal }

get_queryset(user, action) ==
    IF action \in {"retrieve", "update", "partial_update", "destroy"}
    THEN IF action \in {"update", "partial_update", "destroy"}
         THEN EditQueryset(user)
         ELSE RetrieveQueryset(user)
    ELSE ListQueryset

\* ------------------------------------------------- ToolLinkViewSet actions
\* POST /tools/
ToolCreate(user, data) ==
    /\ nextToolId <= MaxTools
    /\ has_permission(user, "POST")
    /\ LET row == perform_create(user, Serializer_validate(user, data))
       IN /\ tools' = [tools EXCEPT ![nextToolId] = row]
          /\ nextToolId' = nextToolId + 1
          /\ lastOp' = RespBody("create", user, nextToolId, 201, NoTool, data)
    /\ UNCHANGED <<users, teamVars, taskVars, docVars, favVars>>

\* PUT /tools/{t}/
ToolUpdate(user, t, data) ==
    /\ IF ~has_permission(user, "PUT")
       THEN /\ lastOp' = RespBody("update", user, t, 403, tools[t], data)
            /\ UNCHANGED tools
       ELSE IF t \notin get_queryset(user, "update")
       THEN /\ lastOp' = RespBody("update", user, t, 404, tools[t], data)
            /\ UNCHANGED tools
       ELSE IF ~has_object_permission(user, "PUT", "update", tools[t])
       THEN /\ lastOp' = RespBody("update", user, t, 403, tools[t], data)
            /\ UNCHANGED tools
       ELSE /\ tools' = [tools EXCEPT ![t] = Serializer_update(tools[t], data)]
            /\ lastOp' = RespBody("update", user, t, 200, tools[t], data)
    /\ UNCHANGED <<users, nextToolId, teamVars, taskVars, docVars, favVars>>

\* DELETE /tools/{t}/
ToolDestroy(user, t) ==
    /\ IF ~has_permission(user, "DELETE")
       THEN /\ lastOp' = RespPre("destroy", user, t, 403, tools[t])
            /\ UNCHANGED <<tools, favorites>>
       ELSE IF t \notin get_queryset(user, "destroy")
       THEN /\ lastOp' = RespPre("destroy", user, t, 404, tools[t])
            /\ UNCHANGED <<tools, favorites>>
       ELSE IF ~has_object_permission(user, "DELETE", "destroy", tools[t])
       THEN /\ lastOp' = RespPre("destroy", user, t, 403, tools[t])
            /\ UNCHANGED <<tools, favorites>>
       ELSE /\ tools' = [tools EXCEPT ![t] = NoTool]
            \* ToolFavorite.tool is on_delete=CASCADE
            /\ favorites' = { f \in favorites : f.tool # t }
            /\ lastOp' = RespPre("destroy", user, t, 204, tools[t])
    /\ UNCHANGED <<users, nextToolId, teamVars, taskVars, docVars, nextFavId, favHist, favProc>>

\* GET /tools/{t}/
ToolRetrieve(user, t) ==
    /\ has_permission(user, "GET")
    /\ IF t \notin get_queryset(user, "retrieve")
       THEN lastOp' = RespPre("retrieve", user, t, 404, tools[t])
       ELSE lastOp' = RespPre("retrieve", user, t, 200, tools[t])
    /\ UNCHANGED <<users, tools, nextToolId, teamVars, taskVars, docVars, favVars>>

\* GET /tools/  (no category or search parameter, all pages)
ToolList(user) ==
    /\ has_permission(user, "GET")
    /\ lastOp' = RespList("list", user, 200, get_queryset(user, "list"))
    /\ UNCHANGED <<users, tools, nextToolId, teamVars, taskVars, docVars, favVars>>

\* ------------------------------------------------------ users.admin.UserAdmin
\* admin action make_admin on one selected user
UserAdmin_make_admin(u) ==
    /\ users' = [users EXCEPT ![u].is_admin = TRUE]
    /\ lastOp' = Resp("make_admin", NoId, u, 200)
    /\ UNCHANGED <<toolVars, teamVars, taskVars, docVars, favVars>>

\* admin action remove_admin on one selected user
UserAdmin_remove_admin(u) ==
    /\ users' = [users EXCEPT ![u].is_admin = FALSE]
    /\ lastOp' = Resp("remove_admin", NoId, u, 200)
    /\ UNCHANGED <<toolVars, teamVars, taskVars, docVars, favVars>>

\* the change form's permission fieldset: is_staff and is_superuser
UserAdmin_change(u, staff, super) ==
    /\ users' = [users EXCEPT ![u].is_staff = staff, ![u].is_superuser = super]
    /\ lastOp' = Resp("change_user", NoId, u, 200)
    /\ UNCHANGED <<toolVars, teamVars, taskVars, docVars, favVars>>

\* ------------------------------------------ users.User / authentication
\* public_metadata.role of a token: 'admin', another role, or no role at all
ClerkRoles == {"admin", "member", "none"}

\* is_admin copied from the token's role on every authentication
ClerkAdminSynced(is_admin, role) == role = "admin"

\* is_admin after get_or_create_from_clerk has updated an existing user:
\* clerk_admin_status and not user.is_admin grants it, nothing removes it
ClerkAdminStatus(is_admin, role) ==
    IF role = "admin" /\ ~is_admin THEN TRUE ELSE is_admin

\* ClerkJWTAuthentication.authenticate of a token of user u carrying role:
\* User.get_or_create_from_clerk finds the row and updates it.  The profile
\* columns it refreshes (email, names, avatar) are not columns of the model.
get_or_create_from_clerk(u, role) ==
    /\ users' = [users EXCEPT ![u].is_admin = ClerkAdminStatus(users[u].is_admin, role)]
    /\ lastOp' = RespData("authenticate", u, u, 200, NoTool, [role |-> role])
    /\ UNCHANGED <<toolVars, teamVars, taskVars, docVars, favVars>>

\* ------------------------------------------- core_api.permissions / teams
\* core_api.permissions.IsAdminOrReadOnly.has_permission (authenticated user)
core_has_permission(user, method) ==
    IF method \in SAFE_METHODS THEN TRUE ELSE IsPrivileged(user)

\* the membership test looking for role 'member' only
IsMemberByRole(team, user) == members[<<team, user>>] = "member"

\* TeamMember.objects.filter(team=team, user=user).exists()
IsMember(team, user) == members[<<team, user>>] # "none"

\* TeamMember.objects.create(team, user, role)
MemberCreated(team, user, role) ==
    [members EXCEPT ![<<team, user>>] = role]

\* the flag set whatever the role is
PromoteAnyRole(user, role) == [users EXCEPT ![user].is_admin = TRUE]

\* role == 'admin' and not user.is_admin: user.is_admin = True; user.save()
PromoteIfAdminRole(user, role) ==
    IF role = "admin" /\ ~users[user].is_admin
    THEN [users EXCEPT ![user].is_admin = TRUE]
    ELSE users

\* POST /teams/ : TeamViewSet.perform_create makes the creator an admin member
TeamCreate(user) ==
    /\ \E t \in Teams : t = Cardinality(teams) + 1
    /\ IF ~core_has_permission(user, "POST")
       THEN /\ lastOp' = Resp("team_create", user, NoId, 403)
            /\ UNCHANGED <<teams, members>>
       ELSE LET t == Cardinality(teams) + 1
            IN /\ teams' = teams \cup {t}
               /\ members' = MemberCreated(t, user, "admin")
               /\ lastOp' = Resp("team_create", user, t, 201)
    /\ UNCHANGED <<users, toolVars, taskVars, docVars, favVars, inviteVars, joinRequests, now>>

\* POST /members/add_member/ {team_id, user_id, role}
add_member(requester, team_id, user_id, role) ==
    /\ IF ~core_has_permission(requester, "POST")
       THEN /\ lastOp' = Resp("add_member", requester, user_id, 403)
            /\ UNCHANGED <<users, members>>
       ELSE IF team_id \notin teams
       THEN /\ lastOp' = Resp("add_member", requester, user_id, 404)
            /\ UNCHANGED <<users, members>>
       ELSE IF IsMember(team_id, user_id)
       THEN /\ lastOp' = Resp("add_member", requester, user_id, 400)
            /\ UNCHANGED <<users, members>>
       ELSE /\ members' = MemberCreated(team_id, user_id, role)
            /\ users' = PromoteIfAdminRole(user_id, role)
            /\ lastOp' = Resp("add_member", requester, user_id, 201)
    /\ UNCHANGED <<toolVars, taskVars, docVars, favVars, teams, inviteVars, joinRequests, now>>

\* POST /members/{pk}/change_role/ {role}, pk naming the row <<team, user>>
change_role(requester, team, user, new_role) ==
    /\ IF ~core_has_permission(requester, "POST")
       THEN /\ lastOp' = Resp("change_role", requester, user, 403)
            /\ UNCHANGED <<users, members>>
       ELSE IF ~IsMember(team, user)
       THEN /\ lastOp' = Resp("change_role", requester, user, 404)
            /\ UNCHANGED <<users, members>>
       ELSE /\ members' = [members EXCEPT ![<<team, user>>] = new_role]
            /\ users' = PromoteIfAdminRole(user, new_role)
            /\ lastOp' = Resp("change_role", requester, user, 200)
    /\ UNCHANGED <<toolVars, taskVars, docVars, favVars, teams, inviteVars, joinRequests, now>>

\* the clock
Tick ==
    /\ now + TickDays <= MaxNow
    /\ now' = now + TickDays
    /\ lastOp' = Resp("tick", NoId, NoId, 200)
    /\ UNCHANGED <<users, toolVars, taskVars, docVars, favVars, teams, members, inviteVars, joinRequests>>

\* -------------------------------------------------------- TeamInviteViewSet
InviteExists(i) == invites[i] # NoInvite

\* the invite rows of any status: a queryset that does not filter on status
InviteQuerysetAll == { i \in InviteIds : InviteExists(i) }

\* queryset = TeamInvite.objects.filter(status='pending')
InviteQueryset ==
    { i \in InviteIds : InviteExists(i) /\ invites[i].status = "pending" }

\* the expiry test with the comparison turned round
InviteExpiredReversed(row) == row.expires_at > now

\* invite.expires_at and invite.expires_at < timezone.now()
InviteExpired(row) == row.expires_at < now

\* an email test that lets every user through
EmailMatchesAnyone(invite_email, user_email) == TRUE

\* invite.email.lower() != request.user.email.lower(), negated
EmailMatches(invite_email, user_email) == Lower(invite_email) = Lower(user_email)

InviteUnchanged == UNCHANGED <<users, members, invites, nextInviteId>>

\* POST /invites/ {team, email}
InviteCreate(user, team, email) ==
    /\ nextInviteId <= MaxInvites
    /\ IF ~core_has_permission(user, "POST")
       THEN /\ lastOp' = Resp("invite_create", user, NoId, 403)
            /\ UNCHANGED <<invites, nextInviteId>>
       ELSE IF team \notin teams
       THEN /\ lastOp' = Resp("invite_create", user, NoId, 400)
            /\ UNCHANGED <<invites, nextInviteId>>
       ELSE /\ invites' = [invites EXCEPT ![nextInviteId] =
                              [team |-> team, email |-> email,
                               status |-> "pending",
                               expires_at |-> now + InviteDays]]
            /\ nextInviteId' = nextInviteId + 1
            /\ lastOp' = Resp("invite_create", user, nextInviteId, 201)
    /\ UNCHANGED <<users, toolVars, taskVars, docVars, favVars, teams, members, joinRequests, now>>

\* POST /invites/{i}/accept/  (permission_classes = [IsAuthenticated])
InviteAccept(user, i) ==
    /\ IF i \notin InviteQueryset
       THEN /\ lastOp' = Resp("invite_accept", user, i, 404)
            /\ InviteUnchanged
       ELSE IF ~EmailMatches(invites[i].email, EmailOf(user))
       THEN /\ lastOp' = RespError("invite_accept", user, i, 403,
                                   "This invite is not for your email address")
            /\ InviteUnchanged
       ELSE IF invites[i].status # "pending"
       THEN /\ lastOp' = RespError("invite_accept", user, i, 400,
                                   "This invite is no longer valid")
            /\ InviteUnchanged
       ELSE IF InviteExpired(invites[i])
       THEN /\ invites' = [invites EXCEPT ![i].status = "expired"]
            /\ lastOp' = RespError("invite_accept", user, i, 400,
                                   "This invite has expired")
            /\ UNCHANGED <<users, members, nextInviteId>>
       ELSE IF IsMember(invites[i].team, user)
       THEN /\ invites' = [invites EXCEPT ![i].status = "accepted"]
            /\ lastOp' = RespError("invite_accept", user, i, 400,
                                   "You are already a member of this team")
            /\ UNCHANGED <<users, members, nextInviteId>>
       ELSE /\ members' = MemberCreated(invites[i].team, user, "member")
            /\ invites' = [invites EXCEPT ![i].status = "accepted"]
            /\ lastOp' = Resp("invite_accept", user, i, 200)
            /\ UNCHANGED <<users, nextInviteId>>
    /\ UNCHANGED <<toolVars, taskVars, docVars, favVars, teams, joinRequests, now>>

\* POST /invites/{i}/cancel/
InviteCancel(user, i) ==
    /\ IF ~core_has_permission(user, "POST")
       THEN /\ lastOp' = Resp("invite_cancel", user, i, 403)
            /\ UNCHANGED invites
       ELSE IF i \notin InviteQueryset
       THEN /\ lastOp' = Resp("invite_cancel", user, i, 404)
            /\ UNCHANGED invites
       ELSE /\ invites' = [invites EXCEPT ![i].status = "cancelled"]
            /\ lastOp' = Resp("invite_cancel", user, i, 200)
    /\ UNCHANGED <<users, toolVars, taskVars, docVars, favVars, teams, members, nextInviteId, joinRequests, now>>

\* POST /invites/{i}/resend/
InviteResend(user, i) ==
    /\ IF ~core_has_permission(user, "POST")
       THEN /\ lastOp' = Resp("invite_resend", user, i, 403)
            /\ UNCHANGED invites
       ELSE IF i \notin InviteQueryset
       THEN /\ lastOp' = Resp("invite_resend", user, i, 404)
            /\ UNCHANGED invites
       ELSE /\ invites' = [invites EXCEPT ![i].expires_at = now + InviteDays]
            /\ lastOp' = Resp("invite_resend", user, i, 200)
    /\ UNCHANGED <<users, toolVars, taskVars, docVars, favVars, teams, members, nextInviteId, joinRequests, now>>

\* PATCH /invites/{i}/ {email, status}: status is a read-only field of
\* TeamInviteSerializer and is dropped from the body
InviteUpdate(user, i, email, status) ==
    /\ IF ~core_has_permission(user, "PATCH")
       THEN /\ lastOp' = Resp("invite_update", user, i, 403)
            /\ UNCHANGED invites
       ELSE IF i \notin InviteQueryset
       THEN /\ lastOp' = Resp("invite_update", user, i, 404)
            /\ UNCHANGED invites
       ELSE /\ invites' = [invites EXCEPT ![i].email = email]
            /\ lastOp' = Resp("invite_update", user, i, 200)
    /\ UNCHANGED <<users, toolVars, taskVars, docVars, favVars, teams, members, nextInviteId, joinRequests, now>>

\* --------------------------------------------------------- TeamInviteAdmin
InviteStatuses == {"pending", "accepted", "expired", "cancelled"}

\* admin action resend_invites on the selected rows:
\* queryset.update(status='pending', expires_at=now + 7 days)
TeamInviteAdmin_resend_invites(selected) ==
    /\ selected # {}
    /\ \A i \in selected : InviteExists(i)
    /\ invites' = [i \in InviteIds |->
                     IF i \in selected
                     THEN [invites[i] EXCEPT !.status = "pending",
                                             !.expires_at = now + InviteDays]
                     ELSE invites[i]]
    /\ lastOp' = Resp("admin_resend_invites", NoId, NoId, 200)
    /\ UNCHANGED <<users, toolVars, taskVars, docVars, favVars, teams, members, nextInviteId, joinRequests, now>>

\* admin action cancel_invites: queryset.filter(status='pending').update(...)
TeamInviteAdmin_cancel_invites(selected) ==
    /\ selected # {}
    /\ \A i \in selected : InviteExists(i)
    /\ invites' = [i \in InviteIds |->
                     IF i \in selected /\ invites[i].status = "pending"
                     THEN [invites[i] EXCEPT !.status = "cancelled"]
                     ELSE invites[i]]
    /\ lastOp' = Resp("admin_cancel_invites", NoId, NoId, 200)
    /\ UNCHANGED <<users, toolVars, taskVars, docVars, favVars, teams, members, nextInviteId, joinRequests, now>>

\* User.objects.filter(Q(email__iexact=email) | ...).first(); every address
\* of InviteEmails belongs to a user, so the branch creating a user is not taken
UserByEmail(email) == CHOOSE u \in Users : Lower(EmailOf(u)) = Lower(email)

\* admin action approve_invites: for each selected pending invite the user
\* with the invite's email is made a member (unless one already) and the
\* invite is marked accepted
TeamInviteAdmin_approve_invites(selected) ==
    /\ selected # {}
    /\ \A i \in selected : InviteExists(i)
    /\ LET approved == { i \in selected : invites[i].status = "pending" }
       IN /\ members' = [k \in Teams \X Users |->
                           IF /\ members[k] = "none"
                              /\ \E i \in approved :
                                    /\ invites[i].team = k[1]
                                    /\ UserByEmail(invites[i].email) = k[2]
                           THEN "member"
                           ELSE members[k]]
          /\ invites' = [i \in InviteIds |->
                           IF i \in approved
                           THEN [invites[i] EXCEPT !.status = "accepted"]
                           ELSE invites[i]]
    /\ lastOp' = Resp("admin_approve_invites", NoId, NoId, 200)
    /\ UNCHANGED <<users, toolVars, taskVars, docVars, favVars, teams, nextInviteId, joinRequests, now>>

\* --------------------------------------------------- TeamJoinRequestViewSet
JoinKeys == Teams \X Users
JoinStatuses == {"pending", "approved", "rejected", "cancelled"}

\* the primary key of the row of (team, user); unique_together allows one
JoinPk(k) == (k[1] - 1) * Cardinality(Users) + k[2]

JoinExists(k) == joinRequests[k] # "none"

\* TeamMember.objects.filter(team=..., user=request.user, role='admin').exists()
IsTeamAdmin(team, user) == members[<<team, user>>] = "admin"

\* get_queryset with the admin branch scoped by the global flags alone
JoinQuerysetByFlag(user) ==
    IF IsPrivileged(user)
    THEN { k \in JoinKeys : joinRequests[k] = "pending" }
    ELSE { k \in JoinKeys : JoinExists(k) /\ k[2] = user }

\* TeamJoinRequestViewSet.get_queryset
JoinQueryset(user) ==
    IF IsPrivileged(user)
    THEN { k \in JoinKeys : IsTeamAdmin(k[1], user) /\ joinRequests[k] = "pending" }
    ELSE { k \in JoinKeys : JoinExists(k) /\ k[2] = user }

\* a pending test that never finds a request
HasPendingRequestNever(team, user) == FALSE

\* TeamJoinRequest.objects.filter(team=team, user=request.user,
\*                                status='pending').exists()
HasPendingRequest(team, user) == joinRequests[<<team, user>>] = "pending"

JoinUnchanged == UNCHANGED <<users, members, joinRequests>>

\* POST /join-requests/ {team}
JoinCreate(user, team) ==
    /\ IF team \notin teams
       THEN lastOp' = RespError("join_create", user, JoinPk(<<team, user>>), 404, "Team not found")
       ELSE IF IsMember(team, user)
       THEN lastOp' = RespError("join_create", user, JoinPk(<<team, user>>), 400,
                                "You are already a member of this team")
       ELSE IF HasPendingRequest(team, user)
       THEN lastOp' = RespError("join_create", user, JoinPk(<<team, user>>), 400,
                                "You already have a pending request for this team")
       ELSE IF JoinExists(<<team, user>>)
       THEN \* unique_together (team, user): the INSERT raises IntegrityError
            lastOp' = Resp("join_create", user, JoinPk(<<team, user>>), 500)
       ELSE lastOp' = Resp("join_create", user, JoinPk(<<team, user>>), 201)
    /\ joinRequests' =
          IF team \in teams /\ ~IsMember(team, user) /\ ~JoinExists(<<team, user>>)
          THEN [joinRequests EXCEPT ![<<team, user>>] = "pending"]
          ELSE joinRequests
    /\ UNCHANGED <<users, toolVars, taskVars, docVars, favVars, teams, members, inviteVars, now>>

\* POST /join-requests/{pk}/approve/ , pk naming the row k = <<team, user>>
JoinApprove(user, k) ==
    /\ IF k \notin JoinQueryset(user)
       THEN /\ lastOp' = Resp("join_approve", user, JoinPk(k), 404)
            /\ JoinUnchanged
       ELSE IF ~IsTeamAdmin(k[1], user)
       THEN /\ lastOp' = RespError("join_approve", user, JoinPk(k), 403,
                                   "Only team admins can approve join requests")
            /\ JoinUnchanged
       ELSE IF joinRequests[k] # "pending"
       THEN /\ lastOp' = RespError("join_approve", user, JoinPk(k), 400,
                                   "This request has already been processed")
            /\ JoinUnchanged
       ELSE IF IsMember(k[1], k[2])
       THEN \* unique_together (team, user) on team_members: IntegrityError
            /\ lastOp' = Resp("join_approve", user, JoinPk(k), 500)
            /\ JoinUnchanged
       ELSE /\ members' = MemberCreated(k[1], k[2], "member")
            /\ joinRequests' = [joinRequests EXCEPT ![k] = "approved"]
            /\ lastOp' = Resp("join_approve", user, JoinPk(k), 200)
            /\ UNCHANGED users
    /\ UNCHANGED <<toolVars, taskVars, docVars, favVars, teams, inviteVars, now>>

\* POST /join-requests/{pk}/reject/
JoinReject(user, k) ==
    /\ IF k \notin JoinQueryset(user)
       THEN /\ lastOp' = Resp("join_reject", user, JoinPk(k), 404)
            /\ UNCHANGED joinRequests
       ELSE IF ~IsTeamAdmin(k[1], user)
       THEN /\ lastOp' = RespError("join_reject", user, JoinPk(k), 403,
                                   "Only team admins can reject join requests")
            /\ UNCHANGED joinRequests
       ELSE IF joinRequests[k] # "pending"
       THEN /\ lastOp' = RespError("join_reject", user, JoinPk(k), 400,
                                   "This request has already been processed")
            /\ UNCHANGED joinRequests
       ELSE /\ joinRequests' = [joinRequests EXCEPT ![k] = "rejected"]
            /\ lastOp' = Resp("join_reject", user, JoinPk(k), 200)
    /\ UNCHANGED <<users, toolVars, taskVars, docVars, favVars, teams, members, inviteVars, now>>

\* POST /join-requests/{pk}/cancel/
JoinCancel(user, k) ==
    /\ IF k \notin JoinQueryset(user)
       THEN /\ lastOp' = Resp("join_cancel", user, JoinPk(k), 404)
            /\ UNCHANGED joinRequests
       ELSE IF k[2] # user
       THEN /\ lastOp' = RespError("join_cancel", user, JoinPk(k), 403,
                                   "You can only cancel your own requests")
            /\ UNCHANGED joinRequests
       ELSE IF joinRequests[k] # "pending"
       THEN /\ lastOp' = RespError("join_cancel", user, JoinPk(k), 400,
                                   "This request has already been processed")
            /\ UNCHANGED joinRequests
       ELSE /\ joinRequests' = [joinRequests EXCEPT ![k] = "cancelled"]
            /\ lastOp' = Resp("join_cancel", user, JoinPk(k), 200)
    /\ UNCHANGED <<users, toolVars, taskVars, docVars, favVars, teams, members, inviteVars, now>>

\* TeamJoinRequestSerializer on an update: 'status' is a writable field, the
\* value of the body is stored
JoinSerializer_update(old, status) == status

\* PUT/PATCH /join-requests/{pk}/ {status}  (ModelViewSet.update)
JoinUpdate(user, k, status) ==
    /\ IF k \notin JoinQueryset(user)
       THEN /\ lastOp' = Resp("join_update", user, JoinPk(k), 404)
            /\ UNCHANGED joinRequests
       ELSE /\ joinRequests' =
                  [joinRequests EXCEPT ![k] = JoinSerializer_update(@, status)]
            /\ lastOp' = Resp("join_update", user, JoinPk(k), 200)
    /\ UNCHANGED <<users, toolVars, taskVars, docVars, favVars, teams, members, inviteVars, now>>

\* ------------------------------------------------ ToolFavorite / favorites
\* the users who keep favorites, and the tool creator
FavUsers == {2, 3}
FavToolCreators == {1}

\* the workers that handle the favorites requests of one user concurrently
FavWorkers == {1, 2}
FavIdle == [pc |-> "idle"]

\* ToolFavorite.objects.filter(user=user)
FavoritesOf(user) == { f \in favorites : f.user = user }

\* a lookup that never finds a row
FavoriteRowsNone(user, tool) == {}

\* ToolFavorite.objects.filter(user=user, tool=tool)
FavoriteRows(user, tool) == { f \in favorites : f.user = user /\ f.tool = tool }

\* the tools a user has favorited
FavoriteTools(user) == { f.tool : f \in FavoritesOf(user) }

\* a table without the unique_together constraint
UniqueTogetherOff(rows, user, tool) == TRUE

\* Meta.unique_together = ['user', 'tool']: the INSERT is accepted
UniqueTogether(rows, user, tool) ==
    ~\E f \in rows : f.user = user /\ f.tool = tool

\* new_order = ToolFavorite.objects.filter(user=user).count()
NewOrder(user) == Cardinality(FavoritesOf(user))

\* favHist after toggle_favorite gave a new row the order o
FavAssigned(user, o) ==
    [favHist EXCEPT ![user] = @ \cup {o}]

\* what toggle_favorite found: the user's favorite tools, and whether the
\* request handled just before was a toggle of the same tool by the same user
TogglePre(user, t) ==
    [favorite_tools |-> FavoriteTools(user),
     after_toggle |-> /\ lastOp.op = "toggle_favorite"
                      /\ lastOp.actor = user
                      /\ lastOp.target = t
                      /\ lastOp.status \in {200, 201}]

\* POST /tools/{t}/toggle_favorite/ handled without interleaving
toggle_favorite(user, t) ==
    /\ has_permission(user, "POST")
    /\ IF t \notin get_queryset(user, "toggle_favorite")
       THEN /\ lastOp' = Resp("toggle_favorite", user, t, 404)
            /\ UNCHANGED <<favorites, nextFavId, favHist>>
       ELSE IF ~has_object_permission(user, "POST", "toggle_favorite", tools[t])
       THEN /\ lastOp' = Resp("toggle_favorite", user, t, 403)
            /\ UNCHANGED <<favorites, nextFavId, favHist>>
       ELSE IF FavoriteRows(user, t) # {}
       THEN /\ favorites' = favorites \ FavoriteRows(user, t)
            /\ lastOp' = RespData("toggle_favorite", user, t, 200,
                                  TogglePre(user, t),
                                  [is_favorite |-> FALSE])
            /\ UNCHANGED <<nextFavId, favHist>>
       ELSE /\ nextFavId <= MaxFavIds
            /\ favorites' = favorites \cup
                  { [id |-> nextFavId, user |-> user, tool |-> t,
                     order |-> NewOrder(user)] }
            /\ nextFavId' = nextFavId + 1
            /\ favHist' = FavAssigned(user, NewOrder(user))
            /\ lastOp' = RespData("toggle_favorite", user, t, 201,
                                  TogglePre(user, t),
                                  [is_favorite |-> TRUE])
    /\ UNCHANGED <<users, toolVars, teamVars, taskVars, docVars, favProc>>

\* the fix favorites applies first: for a user without any flag,
\* ToolLink.objects.filter(created_by_id=user.id, is_personal=False)
\*     .update(is_personal=True)
FixedTools(user) ==
    IF IsPrivileged(user) THEN tools
    ELSE [t \in ToolIds |->
            IF Exists(t) /\ tools[t].created_by = user /\ ~tools[t].is_personal
            THEN [tools[t] EXCEPT !.is_personal = TRUE]
            ELSE tools[t]]

\* ToolFavorite.objects.filter(user=user, tool__is_active=True): the tools of
\* the user's favorite rows, read from the table rows
FavoriteToolsActive(rows, user) ==
    { f.tool : f \in { g \in favorites : g.user = user /\ rows[g.tool].is_active } }

\* ToolLink.objects.filter(created_by_id=user.id, is_personal=True,
\*     is_active=True).exclude(id__in=favorite_tool_ids)
PersonalTools(rows, user) ==
    { t \in ToolIds : /\ rows[t] # NoTool
                      /\ rows[t].created_by = user
                      /\ rows[t].is_personal
                      /\ rows[t].is_active
                      /\ t \notin FavoriteToolsActive(rows, user) }

\* GET /tools/favorites/ : favorite_tools + personal_tools, without pagination
ToolFavorites(user) ==
    /\ has_permission(user, "GET")
    /\ tools' = FixedTools(user)
    /\ lastOp' = RespList("favorites", user, 200,
                          FavoriteToolsActive(FixedTools(user), user)
                            \cup PersonalTools(FixedTools(user), user))
    /\ UNCHANGED <<users, nextToolId, teamVars, taskVars, docVars, favVars>>

\* request.data['orders'] as order_map: tool_id -> order, for the ids named
ReorderToolIds == {1, 2}
ReorderOrders == {0, 2}
OrderMaps == UNION { [S -> ReorderOrders] : S \in SUBSET ReorderToolIds }

\* the rows of any user whose tool_id is in order_map
FavoritesToUpdateAnyUser(rows, user, order_map) ==
    { f \in rows : f.tool \in DOMAIN order_map }

\* favorites_to_update: the user's rows whose tool_id is in order_map
FavoritesToUpdate(rows, user, order_map) ==
    { f \in rows : f.user = user /\ f.tool \in DOMAIN order_map }

\* a write that stores the new order of one of the rows only
BulkUpdateFirstOnly(rows, ids, order_map) ==
    LET hit == { f \in rows : f.id \in ids }
        first == IF hit = {} THEN {}
                 ELSE { CHOOSE f \in hit : \A g \in hit : f.id <= g.id }
    IN (rows \ first) \cup { [f EXCEPT !.order = order_map[f.tool]] : f \in first }

\* ToolFavorite.objects.bulk_update(updated, ['order']): one UPDATE by pk
BulkUpdate(rows, ids, order_map) ==
    { IF f.id \in ids THEN [f EXCEPT !.order = order_map[f.tool]] ELSE f :
        f \in rows }

\* the table after the transaction of reorder_favorites
ReorderApplied(rows, user, order_map) ==
    BulkUpdate(rows, { f.id : f \in FavoritesToUpdate(rows, user, order_map) },
               order_map)

\* POST /tools/reorder_favorites/ handled without interleaving
reorder_favorites(user, order_map) ==
    /\ has_permission(user, "POST")
    /\ IF DOMAIN order_map = {}
       THEN /\ lastOp' = RespData("reorder_favorites", user, NoId, 200, NoTool,
                                  [updated_count |-> 0, orders |-> order_map])
            /\ UNCHANGED favorites
       ELSE LET updated == FavoritesToUpdate(favorites, user, order_map)
            IN /\ favorites' = ReorderApplied(favorites, user, order_map)
               /\ lastOp' = RespData("reorder_favorites", user, NoId, 200, NoTool,
                                     [updated_count |-> Cardinality(updated),
                                      orders |-> order_map])
    /\ UNCHANGED <<users, toolVars, teamVars, taskVars, docVars, nextFavId, favHist, favProc>>

\* ------------------------------------- favorites requests handled in parallel
\* Each worker runs one request of the user; the database is PostgreSQL at
\* READ COMMITTED, so other requests commit between the statements of one.
\* the user whose favorites are reordered
RaceUsers == {2}

\* toggle_favorite up to the result of ToolFavorite.objects.get(...): the
\* primary keys found, and the count read after DoesNotExist
ToggleBegin(w, user, t) ==
    /\ favProc[w] = FavIdle
    /\ has_permission(user, "POST")
    /\ IF t \notin get_queryset(user, "toggle_favorite")
       THEN /\ lastOp' = Resp("toggle_favorite", user, t, 404)
            /\ UNCHANGED favProc
       ELSE /\ favProc' = [favProc EXCEPT ![w] =
                  [pc |-> "toggle", user |-> user, tool |-> t,
                   found |-> { f.id : f \in FavoriteRows(user, t) },
                   new_order |-> NewOrder(user)]]
            /\ UNCHANGED lastOp
    /\ UNCHANGED <<users, toolVars, teamVars, taskVars, docVars, favorites, nextFavId, favHist>>

\* toggle_favorite from favorite.delete() or ToolFavorite.objects.create(...)
ToggleEnd(w) ==
    /\ favProc[w].pc = "toggle"
    /\ LET user == favProc[w].user
           t == favProc[w].tool
       IN IF favProc[w].found # {}
          THEN \* DELETE ... WHERE id = pk
               /\ favorites' = { f \in favorites : f.id \notin favProc[w].found }
               /\ lastOp' = RespData("toggle_favorite", user, t, 200, NoTool,
                                     [is_favorite |-> FALSE])
               /\ UNCHANGED <<nextFavId, favHist>>
          ELSE IF ~UniqueTogether(favorites, user, t)
          THEN \* IntegrityError, not caught by the view
               /\ lastOp' = Resp("toggle_favorite", user, t, 500)
               /\ UNCHANGED <<favorites, nextFavId, favHist>>
          ELSE /\ nextFavId <= MaxFavIds
               /\ favorites' = favorites \cup
                     { [id |-> nextFavId, user |-> user, tool |-> t,
                        order |-> favProc[w].new_order] }
               /\ nextFavId' = nextFavId + 1
               /\ favHist' = FavAssigned(user, favProc[w].new_order)
               /\ lastOp' = RespData("toggle_favorite", user, t, 201, NoTool,
                                     [is_favorite |-> TRUE])
    /\ favProc' = [favProc EXCEPT ![w] = FavIdle]
    /\ UNCHANGED <<users, toolVars, teamVars, taskVars, docVars>>

\* reorder_favorites up to the SELECT inside transaction.atomic()
ReorderBegin(w, user, order_map) ==
    /\ favProc[w] = FavIdle
    /\ has_permission(user, "POST")
    /\ IF DOMAIN order_map = {}
       THEN /\ lastOp' = RespData("reorder_favorites", user, NoId, 200, NoTool,
                                  [updated_count |-> 0, orders |-> order_map])
            /\ UNCHANGED favProc
       ELSE /\ favProc' = [favProc EXCEPT ![w] =
                  [pc |-> "reorder", user |-> user, order_map |-> order_map,
                   updated |-> { f.id : f \in
                                   FavoritesToUpdate(favorites, user, order_map) }]]
            /\ UNCHANGED lastOp
    /\ UNCHANGED <<users, toolVars, teamVars, taskVars, docVars, favorites, nextFavId, favHist>>

\* reorder_favorites from bulk_update to the commit and the response
ReorderEnd(w) ==
    /\ favProc[w].pc = "reorder"
    /\ favorites' = BulkUpdate(favorites, favProc[w].updated, favProc[w].order_map)
    /\ lastOp' = RespData("reorder_favorites", favProc[w].user, NoId, 200, NoTool,
                          [updated_count |-> Cardinality(favProc[w].updated),
                           orders |-> favProc[w].order_map])
    /\ favProc' = [favProc EXCEPT ![w] = FavIdle]
    /\ UNCHANGED <<users, toolVars, teamVars, taskVars, docVars, nextFavId, favHist>>

\* ------------------------------------------------------------ TaskViewSet
TaskIds == 1..MaxTasks
NoTask == [absent |-> TRUE]
TemplateIds == 1..MaxTemplates
NoTemplate == [absent |-> TRUE]
\* None in a DateTimeField(null=True); the times set are values of now
NoTime == -1

\* Task.STATUS_CHOICES
TaskStatuses == {"todo", "in_progress", "completed", "archived"}
\* the status values a client sends: the four choices and one that is none of them
TaskStatusInputs == TaskStatuses \cup {"done"}
\* the titles a client sends
TaskTitles == {"a", "b"}

TaskExists(t) == tasks[t] # NoTask

\* workspace_tasks.views.IsAdminOrReadOnly.has_permission:
\* request.user and request.user.is_admin
tasks_has_permission(user, method) ==
    IF method \in SAFE_METHODS THEN TRUE ELSE users[user].is_admin

\* a Task row as Task.objects.create / TaskSerializer.create makes it: status
\* 'todo', the three timestamps null
NewTask(title, user) ==
    [title |-> title, status |-> "todo", created_by |-> user,
     started_at |-> NoTime, completed_at |-> NoTime, archived_at |-> NoTime]

\* POST /tasks/ {title} : TaskSerializer.create sets created_by; status
\* defaults to todo
TaskCreate(user, title) ==
    /\ nextTaskId <= MaxTasks
    /\ IF ~tasks_has_permission(user, "POST")
       THEN /\ lastOp' = Resp("task_create", user, NoId, 403)
            /\ UNCHANGED <<tasks, nextTaskId>>
       ELSE /\ tasks' = [tasks EXCEPT ![nextTaskId] = NewTask(title, user)]
            /\ nextTaskId' = nextTaskId + 1
            /\ lastOp' = Resp("task_create", user, nextTaskId, 201)
    /\ UNCHANGED <<users, toolVars, teamVars, favVars, docVars, templates>>

\* TaskViewSet.perform_update: one branch of the elif chain is taken, and
\* serializer.save(...) writes the validated title and status with it
perform_update(row, title, new_status, t) ==
    LET old_status == row.status
        saved == [row EXCEPT !.title = title, !.status = new_status]
    IN IF new_status = "in_progress" /\ old_status # "in_progress"
             /\ row.started_at = NoTime
       THEN [saved EXCEPT !.started_at = t]
       ELSE IF new_status = "completed" /\ old_status # "completed"
       THEN [saved EXCEPT !.completed_at = t]
       ELSE IF new_status # "completed" /\ old_status = "completed"
       THEN [saved EXCEPT !.completed_at = NoTime]
       ELSE IF new_status = "archived" /\ old_status # "archived"
       THEN [saved EXCEPT !.archived_at = t]
       ELSE IF new_status # "archived" /\ old_status = "archived"
       THEN [saved EXCEPT !.archived_at = NoTime]
       ELSE saved

\* PATCH bodies of /tasks/{pk}/: any of title and status
TaskPatchBodies ==
    { [title |-> x] : x \in TaskTitles } \cup
    { [status |-> st] : st \in TaskStatuses } \cup
    { [title |-> x, status |-> st] : x \in TaskTitles, st \in TaskStatuses }

\* PATCH /tasks/{pk}/ : permission, get_object, perform_update
TaskUpdate(user, t, data) ==
    /\ IF ~tasks_has_permission(user, "PATCH")
       THEN /\ lastOp' = RespBody("task_update", user, t, 403, NoTool, data)
            /\ UNCHANGED tasks
       ELSE IF ~TaskExists(t)
       THEN /\ lastOp' = RespBody("task_update", user, t, 404, NoTool, data)
            /\ UNCHANGED tasks
       ELSE LET title == IF Has(data, "title") THEN data["title"] ELSE tasks[t].title
                new_status == IF Has(data, "status") THEN data["status"]
                              ELSE tasks[t].status
            IN /\ tasks' = [tasks EXCEPT ![t] =
                              perform_update(tasks[t], title, new_status, now)]
               /\ lastOp' = RespBody("task_update", user, t, 200, NoTool, data)
    /\ UNCHANGED <<users, toolVars, teamVars, favVars, docVars, nextTaskId, templates>>

\* DELETE /tasks/{pk}/
TaskDestroy(user, t) ==
    /\ IF ~tasks_has_permission(user, "DELETE")
       THEN /\ lastOp' = Resp("task_destroy", user, t, 403)
            /\ UNCHANGED tasks
       ELSE IF ~TaskExists(t)
       THEN /\ lastOp' = Resp("task_destroy", user, t, 404)
            /\ UNCHANGED tasks
       ELSE /\ tasks' = [tasks EXCEPT ![t] = NoTask]
            /\ lastOp' = Resp("task_destroy", user, t, 204)
    /\ UNCHANGED <<users, toolVars, teamVars, favVars, docVars, nextTaskId, templates>>

\* update_status that leaves completed_at as it is
update_status_keep_completed(row, new_status, t) ==
    LET old_status == row.status
        r1 == [row EXCEPT !.status = new_status]
        r2 == IF new_status = "in_progress" /\ old_status # "in_progress"
                   /\ row.started_at = NoTime
              THEN [r1 EXCEPT !.started_at = t] ELSE r1
    IN IF new_status = "archived" /\ old_status # "archived"
       THEN [r2 EXCEPT !.archived_at = t]
       ELSE IF new_status # "archived" /\ old_status = "archived"
       THEN [r2 EXCEPT !.archived_at = NoTime]
       ELSE r2

\* the row task.save() writes in update_status: the three if statements run
\* one after the other
update_status_row(row, new_status, t) ==
    LET old_status == row.status
        r1 == [row EXCEPT !.status = new_status]
        r2 == IF new_status = "in_progress" /\ old_status # "in_progress"
                   /\ row.started_at = NoTime
              THEN [r1 EXCEPT !.started_at = t] ELSE r1
        r3 == IF new_status = "completed" /\ old_status # "completed"
              THEN [r2 EXCEPT !.completed_at = t]
              ELSE IF new_status # "completed" /\ old_status = "completed"
              THEN [r2 EXCEPT !.completed_at = NoTime]
              ELSE r2
    IN IF new_status = "archived" /\ old_status # "archived"
       THEN [r3 EXCEPT !.archived_at = t]
       ELSE IF new_status # "archived" /\ old_status = "archived"
       THEN [r3 EXCEPT !.archived_at = NoTime]
       ELSE r3

\* PATCH /tasks/{pk}/update_status/ {status} : permission_classes of the
\* action are [IsAuthenticated]
update_status(user, t, new_status) ==
    /\ IF ~TaskExists(t)
       THEN /\ lastOp' = RespBody("update_status", user, t, 404, NoTool,
                                  [status |-> new_status])
            /\ UNCHANGED tasks
       ELSE IF new_status \notin {"todo", "in_progress", "completed", "archived"}
       THEN /\ lastOp' = RespBody("update_status", user, t, 400, NoTool,
                                  [status |-> new_status])
            /\ UNCHANGED tasks
       ELSE /\ tasks' = [tasks EXCEPT ![t] = update_status_row(tasks[t], new_status, now)]
            /\ lastOp' = RespBody("update_status", user, t, 200, NoTool,
                                  [status |-> new_status])
    /\ UNCHANGED <<users, toolVars, teamVars, favVars, docVars, nextTaskId, templates>>

\* ---------------------------------------------------- TaskTemplateViewSet
TemplateExists(i) == templates[i] # NoTemplate

\* the next pk of task_templates; the model deletes no template
NextTemplateId == Cardinality({ i \in TemplateIds : TemplateExists(i) }) + 1

\* TaskTemplateViewSet.get_queryset: TaskTemplate.objects.filter(created_by=user)
TemplateQueryset(user) ==
    { i \in TemplateIds : TemplateExists(i) /\ templates[i].created_by = user }

\* POST /task-templates/ {title} : permission_classes [IsAuthenticated],
\* perform_create saves created_by
TemplateCreate(user, title) ==
    /\ NextTemplateId <= MaxTemplates
    /\ templates' = [templates EXCEPT ![NextTemplateId] =
                       [title |-> title, created_by |-> user]]
    /\ lastOp' = Resp("template_create", user, NextTemplateId, 201)
    /\ UNCHANGED <<users, toolVars, teamVars, favVars, docVars, tasks, nextTaskId>>

\* POST /tasks/{pk}/save_as_template/ : permission_classes [IsAuthenticated]
save_as_template(user, t) ==
    /\ NextTemplateId <= MaxTemplates
    /\ IF ~TaskExists(t)
       THEN /\ lastOp' = Resp("save_as_template", user, t, 404)
            /\ UNCHANGED templates
       ELSE IF tasks[t].status = "archived"
       THEN /\ lastOp' = RespError("save_as_template", user, t, 400,
                                   "Cannot save archived tasks as templates.")
            /\ UNCHANGED templates
       ELSE /\ templates' = [templates EXCEPT ![NextTemplateId] =
                               [title |-> tasks[t].title, created_by |-> user]]
            /\ lastOp' = Resp("save_as_template", user, t, 201)
    /\ UNCHANGED <<users, toolVars, teamVars, favVars, docVars, tasks, nextTaskId>>

\* POST /task-templates/{pk}/create_task_from_template/ :
\* permission_classes [IsAuthenticated]; Task.objects.create(status='todo',
\* created_by=request.user)
create_task_from_template(user, i) ==
    /\ nextTaskId <= MaxTasks
    /\ IF i \notin TemplateQueryset(user)
       THEN /\ lastOp' = Resp("create_task_from_template", user, i, 404)
            /\ UNCHANGED <<tasks, nextTaskId>>
       ELSE /\ tasks' = [tasks EXCEPT ![nextTaskId] =
                           NewTask(templates[i].title, user)]
            /\ nextTaskId' = nextTaskId + 1
            /\ lastOp' = Resp("create_task_from_template", user, i, 201)
    /\ UNCHANGED <<users, toolVars, teamVars, favVars, docVars, templates>>

\* --------------------------------------------------------- DocumentViewSet
DocIds == 1..MaxDocs
\* Document.STATUS_CHOICES
DocStatuses == {"pending", "uploaded", "processing", "ready", "error"}

DocExists(d) == documents[d] # "none"

\* the next pk of documents; the model deletes no document
NextDocId == Cardinality({ d \in DocIds : DocExists(d) }) + 1

\* POST /documents/request_upload/ : permission_classes [IsAuthenticated] and
\* the check of the three flags in the body; s3_ok is whether the credentials
\* are configured and the bucket answers
request_upload(user, s3_ok) ==
    /\ NextDocId <= MaxDocs
    /\ IF ~IsPrivileged(user)
       THEN /\ lastOp' = RespError("request_upload", user, NoId, 403,
                                   "Only admins can upload documents")
            /\ UNCHANGED documents
       ELSE IF ~s3_ok
       THEN /\ documents' = [documents EXCEPT ![NextDocId] = "error"]
            /\ lastOp' = Resp("request_upload", user, NextDocId, 500)
       ELSE /\ documents' = [documents EXCEPT ![NextDocId] = "pending"]
            /\ lastOp' = Resp("request_upload", user, NextDocId, 200)
    /\ UNCHANGED <<users, toolVars, teamVars, favVars, taskVars, docJobs>>

\* document.status = 'uploaded'; document.save()
confirm_upload_row(status) == "uploaded"

\* POST /documents/{pk}/confirm_upload/
confirm_upload(user, d) ==
    /\ IF ~core_has_permission(user, "POST")
       THEN /\ lastOp' = RespData("confirm_upload", user, d, 403, NoTool,
                                  [status |-> documents[d]])
            /\ UNCHANGED documents
       ELSE IF ~DocExists(d)
       THEN /\ lastOp' = RespData("confirm_upload", user, d, 404, NoTool,
                                  [status |-> documents[d]])
            /\ UNCHANGED documents
       ELSE /\ documents' = [documents EXCEPT ![d] = confirm_upload_row(documents[d])]
            /\ lastOp' = RespData("confirm_upload", user, d, 200, NoTool,
                                  [status |-> documents[d]])
    /\ UNCHANGED <<users, toolVars, teamVars, favVars, taskVars, docJobs>>

\* process_document up to its first save; the call in confirm_upload is
\* commented out, so the task runs when a worker is handed the document id
process_document_start(d) ==
    /\ DocExists(d)
    /\ d \notin docJobs
    /\ documents' = [documents EXCEPT ![d] = "processing"]
    /\ docJobs' = docJobs \cup {d}
    /\ lastOp' = Resp("process_document_start", NoId, d, 200)
    /\ UNCHANGED <<users, toolVars, teamVars, favVars, taskVars>>

\* process_document from the processing logic to its last save: 'ready', or
\* 'error' when the logic raises
process_document_end(d, ok) ==
    /\ d \in docJobs
    /\ documents' = [documents EXCEPT ![d] = IF ok THEN "ready" ELSE "error"]
    /\ docJobs' = docJobs \ {d}
    /\ lastOp' = Resp("process_document_end", NoId, d, 200)
    /\ UNCHANGED <<users, toolVars, teamVars, favVars, taskVars>>

\* ------------------------------------------------------------ specification
Init ==
    /\ users = [u \in Users |->
                  [is_admin |-> FALSE, is_superuser |-> FALSE, is_staff |-> FALSE]]
    /\ tools = [t \in ToolIds |-> NoTool]
    /\ nextToolId = 1
    /\ lastOp = Resp("init", NoId, NoId, 200)
    /\ teams = {}
    /\ members = [k \in Teams \X Users |-> "none"]
    /\ invites = [i \in InviteIds |-> NoInvite]
    /\ nextInviteId = 1
    /\ joinRequests = [k \in Teams \X Users |-> "none"]
    /\ now = 0
    /\ favorites = {}
    /\ nextFavId = 1
    /\ favHist = [u \in Users |-> {}]
    /\ favProc = [p \in FavWorkers |-> FavIdle]
    /\ tasks = [t \in TaskIds |-> NoTask]
    /\ nextTaskId = 1
    /\ templates = [i \in TemplateIds |-> NoTemplate]
    /\ documents = [d \in DocIds |-> "none"]
    /\ docJobs = {}

Next ==
    \/ \E u \in ToolPrincipals, d \in ToolCreateBodies : ToolCreate(u, d)
    \/ \E u \in ToolPrincipals, t \in ToolIds, d \in ToolPutBodies : ToolUpdate(u, t, d)
    \/ \E u \in ToolPrincipals, t \in ToolIds : ToolDestroy(u, t)
    \/ \E u \in ToolPrincipals, t \in ToolIds : ToolRetrieve(u, t)
    \/ \E u \in ToolPrincipals : ToolList(u)
    \/ \E u \in AdminActionUsers : UserAdmin_make_admin(u)
    \/ \E u \in AdminActionUsers : UserAdmin_remove_admin(u)
    \/ \E u \in OperatorUsers, a \in BOOLEAN, b \in BOOLEAN : UserAdmin_change(u, a, b)

Spec == Init /\ [][Next]_vars

\* the teams and invites APIs, the invite admin actions and the clock; users
\* 1 and 2 manage teams and invites, every user may try to accept
InviteActors == {1, 2}

NextInvite ==
    \/ \E u \in InviteActors : TeamCreate(u)
    \/ \E u \in InviteActors, t \in Teams, v \in InviteActors :
          add_member(u, t, v, "member")
    \/ \E u \in InviteActors, t \in Teams, e \in InviteEmails : InviteCreate(u, t, e)
    \/ \E u \in Users, i \in InviteIds : InviteAccept(u, i)
    \/ \E u \in InviteActors, i \in InviteIds : InviteCancel(u, i)
    \/ \E u \in InviteActors, i \in InviteIds : InviteResend(u, i)
    \/ \E u \in InviteActors, i \in InviteIds, e \in InviteEmails :
          InviteUpdate(u, i, e, "accepted")
    \/ \E sel \in SUBSET InviteIds : TeamInviteAdmin_resend_invites(sel)
    \/ \E sel \in SUBSET InviteIds : TeamInviteAdmin_cancel_invites(sel)
    \/ \E sel \in SUBSET InviteIds : TeamInviteAdmin_approve_invites(sel)
    \/ \E u \in AdminActionUsers : UserAdmin_make_admin(u)
    \/ \E u \in AdminActionUsers : UserAdmin_remove_admin(u)
    \/ Tick

SpecInvite == Init /\ [][NextInvite]_vars

\* the favorites API handled one request at a time, on shared tools that
\* user 1 creates and deletes
FavToolBodies == { [is_active |-> TRUE] }

NextFav ==
    \/ \E u \in FavToolCreators : UserAdmin_make_admin(u)
    \/ \E u \in FavToolCreators, d \in FavToolBodies : ToolCreate(u, d)
    \/ \E u \in FavToolCreators, t \in ToolIds : ToolDestroy(u, t)
    \/ \E u \in FavUsers, t \in ToolIds : toggle_favorite(u, t)

SpecFav == Init /\ [][NextFav]_vars

\* the favorites API with reorder_favorites, one request at a time; user 2
\* reorders, users 2 and 3 toggle
NextReorder ==
    \/ \E u \in FavToolCreators : UserAdmin_make_admin(u)
    \/ \E u \in FavToolCreators, d \in FavToolBodies : ToolCreate(u, d)
    \/ \E u \in FavUsers, t \in ToolIds : toggle_favorite(u, t)
    \/ \E u \in RaceUsers, m \in OrderMaps : reorder_favorites(u, m)

SpecReorder == Init /\ [][NextReorder]_vars

\* the favorites requests of one user handled by two workers in parallel;
\* the reorder requests name nothing, or both tools with different orders,
\* and the toggles are of the tools a reorder request can name
RaceOrderMaps ==
    { m \in OrderMaps :
        \/ DOMAIN m = {}
        \/ DOMAIN m = ReorderToolIds /\ \A x, y \in DOMAIN m : x # y => m[x] # m[y] }

NextFavRace ==
    \/ \E u \in FavToolCreators : UserAdmin_make_admin(u)
    \/ \E u \in FavToolCreators, d \in FavToolBodies : ToolCreate(u, d)
    \/ \E w \in FavWorkers, u \in RaceUsers, t \in ReorderToolIds : ToggleBegin(w, u, t)
    \/ \E w \in FavWorkers : ToggleEnd(w)
    \/ \E w \in FavWorkers, u \in RaceUsers, m \in RaceOrderMaps : ReorderBegin(w, u, m)
    \/ \E w \in FavWorkers : ReorderEnd(w)

SpecFavRace == Init /\ [][NextFavRace]_vars

\* the admin-only writes of each API while the admin site sets the three
\* flags; user 3 is the one added and invited
NextPriv ==
    \/ \E u \in AdminActionUsers : UserAdmin_make_admin(u)
    \/ \E u \in AdminActionUsers : UserAdmin_remove_admin(u)
    \/ \E u \in OperatorUsers, a \in BOOLEAN, b \in BOOLEAN : UserAdmin_change(u, a, b)
    \/ \E u \in ToolPrincipals, d \in FavToolBodies : ToolCreate(u, d)
    \/ \E u \in ToolPrincipals, t \in ToolIds : ToolDestroy(u, t)
    \/ \E u \in ToolPrincipals : TeamCreate(u)
    \/ \E u \in ToolPrincipals, t \in Teams : add_member(u, t, 3, "member")
    \/ \E u \in ToolPrincipals, t \in Teams : InviteCreate(u, t, "ann@x.io")
    \/ \E u \in ToolPrincipals : TaskCreate(u, "a")

SpecPriv == Init /\ [][NextPriv]_vars

\* authentications with every role, the members API with both roles, and the
\* admin site changing the flags of users 1 and 2
NextRole ==
    \/ \E u \in Users, r \in ClerkRoles : get_or_create_from_clerk(u, r)
    \/ \E u \in ToolPrincipals : TeamCreate(u)
    \/ \E u \in ToolPrincipals, t \in Teams, v \in Users, r \in {"admin", "member"} :
          add_member(u, t, v, r)
    \/ \E u \in ToolPrincipals, t \in Teams, v \in Users, r \in {"admin", "member"} :
          change_role(u, t, v, r)
    \/ \E u \in AdminActionUsers : UserAdmin_make_admin(u)
    \/ \E u \in AdminActionUsers : UserAdmin_remove_admin(u)
    \/ \E u \in OperatorUsers, a \in BOOLEAN, b \in BOOLEAN : UserAdmin_change(u, a, b)

SpecRole == Init /\ [][NextRole]_vars

\* the tasks and templates APIs used by an admin (user 1, once flagged) and
\* by a user without any flag (user 2); the clock stands still
TaskAdmins == {1}
TaskUsers == {2}

NextTaskAccess ==
    \/ \E u \in TaskAdmins : UserAdmin_make_admin(u)
    \/ \E u \in TaskAdmins \cup TaskUsers, x \in TaskTitles : TaskCreate(u, x)
    \/ \E u \in TaskAdmins \cup TaskUsers, t \in TaskIds, x \in TaskTitles :
          TaskUpdate(u, t, [title |-> x])
    \/ \E u \in TaskAdmins \cup TaskUsers, t \in TaskIds : TaskDestroy(u, t)
    \/ \E u \in TaskUsers, t \in TaskIds, st \in {"completed", "done"} :
          update_status(u, t, st)
    \/ \E u \in TaskUsers, x \in TaskTitles : TemplateCreate(u, x)
    \/ \E u \in TaskUsers, t \in TaskIds : save_as_template(u, t)
    \/ \E u \in TaskAdmins \cup TaskUsers, i \in TemplateIds :
          create_task_from_template(u, i)

SpecTaskAccess == Init /\ [][NextTaskAccess]_vars

\* tasks created by the admin and changed through update_status only, while
\* the clock runs
\* the task whose status the requests change
StatusTaskIds == {1}

NextTaskStatus ==
    \/ \E u \in TaskAdmins : UserAdmin_make_admin(u)
    \/ \E u \in TaskAdmins : TaskCreate(u, "a")
    \/ \E u \in TaskUsers, t \in StatusTaskIds, st \in TaskStatusInputs : update_status(u, t, st)
    \/ Tick

SpecTaskStatus == Init /\ [][NextTaskStatus]_vars

\* the same with the admin's PATCH of the status next to update_status
NextTaskUpdate ==
    \/ \E u \in TaskAdmins : UserAdmin_make_admin(u)
    \/ \E u \in TaskAdmins : TaskCreate(u, "a")
    \/ \E u \in TaskUsers, t \in StatusTaskIds, st \in TaskStatusInputs : update_status(u, t, st)
    \/ \E u \in TaskAdmins, t \in StatusTaskIds, st \in TaskStatuses :
          TaskUpdate(u, t, [status |-> st])
    \/ Tick

SpecTaskUpdate == Init /\ [][NextTaskUpdate]_vars

\* tools made by the admin and changed by PUT (turned personal, deactivated)
\* while user 2 toggles favorites and reads the list and the favorites
FavReaders == {2}

NextFavList ==
    \/ \E u \in FavToolCreators : UserAdmin_make_admin(u)
    \/ \E u \in FavToolCreators, d \in FavToolBodies : ToolCreate(u, d)
    \/ \E u \in FavToolCreators, t \in ToolIds, d \in ToolPutBodies : ToolUpdate(u, t, d)
    \/ \E u \in FavReaders, t \in ToolIds : toggle_favorite(u, t)
    \/ \E u \in FavReaders : ToolFavorites(u)
    \/ \E u \in FavReaders : ToolList(u)

SpecFavList == Init /\ [][NextFavList]_vars

\* the documents API used by an admin (user 1, once flagged) and by a user
\* without any flag (user 2), and the processing task
DocAdmins == {1}
DocUsers == {1, 2}

NextDoc ==
    \/ \E u \in DocAdmins : UserAdmin_make_admin(u)
    \/ \E u \in DocAdmins : UserAdmin_remove_admin(u)
    \/ \E u \in DocUsers, ok \in BOOLEAN : request_upload(u, ok)
    \/ \E u \in DocUsers, d \in DocIds : confirm_upload(u, d)
    \/ \E d \in DocIds : process_document_start(d)
    \/ \E d \in DocIds, ok \in BOOLEAN : process_document_end(d, ok)

SpecDoc == Init /\ [][NextDoc]_vars

\* the teams, members and join-requests APIs; the admin site flags users 1, 2
JoinAdminActionUsers == {1, 2}

\* the users who ask to join
JoinRequesters == {2, 3}

NextJoin ==
    \/ \E u \in Users : TeamCreate(u)
    \/ \E u \in Users, t \in Teams, v \in JoinRequesters : add_member(u, t, v, "member")
    \/ \E u \in Users, t \in Teams, v \in JoinRequesters, r \in {"admin", "member"} :
          change_role(u, t, v, r)
    \/ \E u \in JoinRequesters, t \in Teams : JoinCreate(u, t)
    \/ \E u \in Users, k \in JoinKeys : JoinApprove(u, k)
    \/ \E u \in Users, k \in JoinKeys : JoinReject(u, k)
    \/ \E u \in Users, k \in JoinKeys : JoinCancel(u, k)
    \/ \E u \in Users, k \in JoinKeys, st \in JoinStatuses : JoinUpdate(u, k, st)
    \/ \E u \in JoinAdminActionUsers : UserAdmin_make_admin(u)
    \/ \E u \in JoinAdminActionUsers : UserAdmin_remove_admin(u)

SpecJoin == Init /\ [][NextJoin]_vars

\* ------------------------------------------------------------------ claims
\* A principal none of whose three flags is set
NonPrivileged(u) ==
    ~users[u].is_admin /\ ~users[u].is_superuser /\ ~users[u].is_staff

Succeeded == lastOp.status \in {200, 201, 204}

AsksShared(body) == Has(body, "is_personal") /\ body["is_personal"] = FALSE

\* C1: right after a tool create or update has written a row, the row is
\* personal whenever its creator holds none of the three flags, whatever
\* is_personal the request asked for and whoever sent it.
C1_NonPrivilegedCreatorMeansPersonal ==
    (lastOp.op \in {"create", "update"} /\ Succeeded) =>
        LET row == tools[lastOp.target]
        IN NonPrivileged(row.created_by) => row.is_personal

\* C1, the case reached: a privileged principal's update asked for
\* is_personal = false on a shared tool whose creator has lost every flag.
C1_Witness ==
    /\ lastOp.op = "update" /\ lastOp.status = 200
    /\ AsksShared(lastOp.body)
    /\ ~lastOp.pre.is_personal
    /\ lastOp.actor # tools[lastOp.target].created_by
    /\ NonPrivileged(tools[lastOp.target].created_by)
    /\ tools[lastOp.target].is_personal

\* C2: an update or delete of an existing tool is permitted exactly when the
\* requester is privileged or is the tool's recorded creator.
C2_MutationPermittedIffPrivilegedOrCreator ==
    (lastOp.op \in {"update", "destroy"} /\ lastOp.pre # NoTool) =>
        (Succeeded <=>
            (~NonPrivileged(lastOp.actor) \/ lastOp.pre.created_by = lastOp.actor))

\* C3: the list response holds exactly the tools that are shared and active.
C3_ListIsSharedAndActive ==
    lastOp.op = "list" =>
        \A t \in ToolIds :
            t \in lastOp.result <=>
                (tools[t] # NoTool /\ ~tools[t].is_personal /\ tools[t].is_active)

\* C3, the case reached: a list that returns a shared tool and leaves out an
\* active personal tool of the requester.
C3_Witness ==
    /\ lastOp.op = "list"
    /\ lastOp.result # {}
    /\ \E t \in ToolIds :
          /\ tools[t] # NoTool /\ tools[t].is_personal /\ tools[t].is_active
          /\ tools[t].created_by = lastOp.actor
          /\ t \notin lastOp.result

\* C4 as stated: a personal tool is retrieved exactly by its creator, whatever
\* its active flag.
C4_RetrievePersonalIffCreator ==
    (lastOp.op = "retrieve" /\ lastOp.pre # NoTool /\ lastOp.pre.is_personal) =>
        (lastOp.status = 200 <=> lastOp.pre.created_by = lastOp.actor)

\* C4 amended: a personal tool is retrieved exactly by its creator and only
\* while it is active; an inactive personal tool is not found by anyone.
C4_RetrievePersonalIffCreatorAndActive ==
    (lastOp.op = "retrieve" /\ lastOp.pre # NoTool /\ lastOp.pre.is_personal) =>
        /\ lastOp.status \in {200, 404}
        /\ lastOp.status = 200 <=>
               (lastOp.pre.created_by = lastOp.actor /\ lastOp.pre.is_active)

\* C4, the case reached: the creator asks for their own inactive personal tool
\* and gets not-found.
C4_Witness ==
    /\ lastOp.op = "retrieve" /\ lastOp.pre # NoTool
    /\ lastOp.pre.is_personal /\ ~lastOp.pre.is_active
    /\ lastOp.pre.created_by = lastOp.actor
    /\ lastOp.status = 404

JoinRowOf(pk) == CHOOSE k \in JoinKeys : JoinPk(k) = pk

\* C6 as stated: a reviewer with a global admin flag and no TeamMember row
\* for the team who approves a pending request gets 403 Forbidden, the
\* request stays pending and no membership is created.
C6_FlagOnlyReviewerForbidden ==
    [][\A u \in Users, k \in JoinKeys :
          ( /\ lastOp'.op = "join_approve"
            /\ lastOp'.actor = u
            /\ lastOp'.target = JoinPk(k)
            /\ IsPrivileged(u)
            /\ members[<<k[1], u>>] = "none"
            /\ joinRequests[k] = "pending" )
          => /\ lastOp'.status = 403
             /\ joinRequests'[k] = "pending"
             /\ members' = members]_vars

\* C6: approve answers 200 only if the reviewer holds a TeamMember row with
\* role admin on the team of the request. A reviewer with a global admin flag
\* and no TeamMember row for the team gets 404 Not Found (the request is not
\* in the reviewer's queryset), the request stays pending and no membership
\* is created.
C6_ApproveNeedsTeamAdminRow ==
    [][\A u \in Users, k \in JoinKeys :
          ( /\ lastOp'.op = "join_approve"
            /\ lastOp'.actor = u
            /\ lastOp'.target = JoinPk(k) )
          => /\ lastOp'.status = 200 => members[<<k[1], u>>] = "admin"
             /\ ( /\ IsPrivileged(u)
                  /\ members[<<k[1], u>>] = "none"
                  /\ joinRequests[k] = "pending" )
                => /\ lastOp'.status = 404
                   /\ joinRequests'[k] = "pending"
                   /\ members' = members]_vars

\* a reviewer with a global flag and no row on the team has just been refused
\* the approval of a pending request
C6_Witness ==
    /\ lastOp.op = "join_approve"
    /\ lastOp.status # 200
    /\ IsPrivileged(lastOp.actor)
    /\ members[<<JoinRowOf(lastOp.target)[1], lastOp.actor>>] = "none"
    /\ joinRequests[JoinRowOf(lastOp.target)] = "pending"

\* ---------------------------------------------------------------- C7
InviteTerminal == {"accepted", "expired", "cancelled"}

\* C7 as stated: once an invite is accepted, expired or cancelled, no step
\* (accept, cancel, resend, update, or the admin resend action) changes its
\* status.
C7_TerminalInviteNeverChanges ==
    [][\A i \in InviteIds :
          (InviteExists(i) /\ invites[i].status \in InviteTerminal)
          => invites'[i].status = invites[i].status]_vars

\* C7: once an invite is accepted, expired or cancelled, no operation of the
\* invite API (accept, cancel, resend, update) changes its status; the
\* resend_invites action of the admin site is the one step that does, and it
\* puts the invite back to pending.
C7_TerminalInviteChangesOnlyByAdminResend ==
    [][\A i \in InviteIds :
          (InviteExists(i) /\ invites[i].status \in InviteTerminal)
          => \/ invites'[i].status = invites[i].status
             \/ /\ lastOp'.op = "admin_resend_invites"
                /\ invites'[i].status = "pending"]_vars

\* an operation of the invite API has just been answered on a terminal invite
C7_Witness ==
    /\ lastOp.op \in {"invite_accept", "invite_cancel", "invite_resend",
                      "invite_update"}
    /\ lastOp.target \in InviteIds
    /\ InviteExists(lastOp.target)
    /\ invites[lastOp.target].status \in InviteTerminal
    /\ lastOp.status = 404

\* ---------------------------------------------------------------- C8
JoinTerminal == {"approved", "rejected", "cancelled"}

\* C8 as stated: once a join request is approved, rejected or cancelled, no
\* operation on the join-request collection (approve, reject, cancel, update,
\* partial update) changes its status.
C8_TerminalJoinRequestNeverChanges ==
    [][\A k \in JoinKeys :
          joinRequests[k] \in JoinTerminal
          => joinRequests'[k] = joinRequests[k]]_vars

\* ---------------------------------------------------------------- C9
\* C9: accept on a pending invite whose expires_at is before now, by a user
\* whose email matches the invite's, sets the status to expired, answers 400
\* and creates no membership.
C9_AcceptExpiredMarksExpired ==
    [][\A u \in Users, i \in InviteIds :
          ( /\ lastOp'.op = "invite_accept"
            /\ lastOp'.actor = u
            /\ lastOp'.target = i
            /\ InviteExists(i)
            /\ invites[i].status = "pending"
            /\ invites[i].expires_at < now
            /\ Lower(invites[i].email) = Lower(EmailOf(u)) )
          => /\ invites'[i].status = "expired"
             /\ lastOp'.status = 400
             /\ members' = members]_vars

\* the invited user has just accepted after the expiry date
C9_Witness ==
    /\ lastOp.op = "invite_accept"
    /\ lastOp.status = 400
    /\ lastOp.error = "This invite has expired"
    /\ invites[lastOp.target].status = "expired"
    /\ invites[lastOp.target].expires_at < now
    /\ Lower(invites[lastOp.target].email) = Lower(EmailOf(lastOp.actor))

\* --------------------------------------------------------------- C10
\* C10: accept on a pending, unexpired invite by a user whose email matches
\* and who is already a member of the team sets the status to accepted,
\* answers 400 with the error naming the membership, and leaves the
\* memberships as they were.
C10_AcceptByMemberMarksAccepted ==
    [][\A u \in Users, i \in InviteIds :
          ( /\ lastOp'.op = "invite_accept"
            /\ lastOp'.actor = u
            /\ lastOp'.target = i
            /\ InviteExists(i)
            /\ invites[i].status = "pending"
            /\ ~(invites[i].expires_at < now)
            /\ Lower(invites[i].email) = Lower(EmailOf(u))
            /\ members[<<invites[i].team, u>>] # "none" )
          => /\ invites'[i].status = "accepted"
             /\ lastOp'.status = 400
             /\ lastOp'.error = "You are already a member of this team"
             /\ members' = members]_vars

\* a member of the team has just accepted an invite to it
C10_Witness ==
    /\ lastOp.op = "invite_accept"
    /\ lastOp.status = 400
    /\ lastOp.error = "You are already a member of this team"
    /\ invites[lastOp.target].status = "accepted"
    /\ members[<<invites[lastOp.target].team, lastOp.actor>>] # "none"


\* --------------------------------------------------------------- C11
\* C11 as stated: an invite moves from pending to accepted, or a membership
\* appears while an invite is handled, only in an accept call by a user whose
\* email equals the invite's, case-insensitively.
C11_AcceptedOnlyByMatchingAccept ==
    [][\A i \in InviteIds :
          ( /\ InviteExists(i)
            /\ invites[i].status = "pending"
            /\ invites'[i].status = "accepted" )
          => /\ lastOp'.op = "invite_accept"
             /\ lastOp'.target = i
             /\ Lower(invites[i].email) = Lower(EmailOf(lastOp'.actor))]_vars

\* C11: an invite moves from pending to accepted only in an accept call by a
\* user whose email equals the invite's (case-insensitively), or in the
\* approve_invites action of the admin site; an accept call by a user with
\* another email is answered 403 and leaves the invite and all memberships
\* unchanged.
C11_AcceptedOnlyByMatchingAcceptOrAdminApprove ==
    [][/\ \A i \in InviteIds :
            ( /\ InviteExists(i)
              /\ invites[i].status = "pending"
              /\ invites'[i].status = "accepted" )
            => \/ /\ lastOp'.op = "invite_accept"
                  /\ lastOp'.target = i
                  /\ Lower(invites[i].email) = Lower(EmailOf(lastOp'.actor))
               \/ lastOp'.op = "admin_approve_invites"
       /\ \A u \in Users, i \in InviteIds :
            ( /\ lastOp'.op = "invite_accept"
              /\ lastOp'.actor = u
              /\ lastOp'.target = i
              /\ InviteExists(i)
              /\ invites[i].status = "pending"
              /\ Lower(invites[i].email) # Lower(EmailOf(u)) )
            => /\ lastOp'.status = 403
               /\ invites' = invites
               /\ members' = members]_vars

\* a user with another email has just tried to accept a pending invite
C11_Witness ==
    /\ lastOp.op = "invite_accept"
    /\ lastOp.status = 403
    /\ invites[lastOp.target].status = "pending"
    /\ Lower(invites[lastOp.target].email) # Lower(EmailOf(lastOp.actor))


\* --------------------------------------------------------------- C12
\* C12 as stated: in every reachable state a join request with status
\* approved has a membership for its (team, user) pair.
C12_ApprovedImpliesMembership ==
    \A k \in JoinKeys : joinRequests[k] = "approved" => members[k] # "none"

C14_DoubleToggleRestores ==
    [][\A u \in Users, t \in ToolIds :
          ( /\ lastOp.op = "toggle_favorite"
            /\ lastOp.actor = u
            /\ lastOp.target = t
            /\ lastOp.status \in {200, 201}
            /\ lastOp'.op = "toggle_favorite"
            /\ lastOp'.actor = u
            /\ lastOp'.target = t
            /\ lastOp'.status \in {200, 201} )
          => /\ { f.tool : f \in { g \in favorites' : g.user = u } }
                  = lastOp.pre.favorite_tools
             /\ lastOp.body.is_favorite = (t \notin lastOp.pre.favorite_tools)
             /\ lastOp'.body.is_favorite = (t \in lastOp.pre.favorite_tools)]_vars

\* the second of two toggles in a row has just been answered
C14_Witness ==
    /\ lastOp.op = "toggle_favorite"
    /\ lastOp.status \in {200, 201}
    /\ lastOp.pre.after_toggle

\* --------------------------------------------------------------- C15
\* C15 as stated: each favorite that toggle_favorite creates for user P gets
\* an order value larger than every order value toggle_favorite assigned to
\* P before.
C15_AssignedOrdersIncrease ==
    [][\A u \in Users :
          ( /\ lastOp'.op = "toggle_favorite"
            /\ lastOp'.actor = u
            /\ lastOp'.status = 201 )
          => \A f \in favorites' \ favorites :
                \A o \in favHist[u] : f.order > o]_vars

\* --------------------------------------------------------------- C16
\* C16 as stated: with toggle_favorite calls only, the order values of a
\* user holding n favorites are exactly 0..n-1.
C16_OrdersDense ==
    \A u \in Users :
        { f.order : f \in FavoritesOf(u) } = 0..(Cardinality(FavoritesOf(u)) - 1)

\* --------------------------------------------------------------- C18
C18_ExampleRows ==
    { [id |-> 1, user |-> 2, tool |-> 1, order |-> 0],
      [id |-> 2, user |-> 2, tool |-> 2, order |-> 1],
      [id |-> 3, user |-> 2, tool |-> 3, order |-> 2] }

C18_ExampleResult ==
    { [id |-> 1, user |-> 2, tool |-> 1, order |-> 2],
      [id |-> 2, user |-> 2, tool |-> 2, order |-> 1],
      [id |-> 3, user |-> 2, tool |-> 3, order |-> 0] }

\* C18: reorder_favorites by user P answers 200, gives the supplied order to
\* each favorite of P whose tool the request names, leaves every other row
\* (P's omitted favorites, other users' favorites) as it was, creates no
\* row, and reports as updated_count the number of P's favorites named. For
\* orders A=0, B=1, C=2 the request [A to 2, C to 0] yields A=2, B=1, C=0.
C18_ReorderFrame ==
    [][/\ \A u \in Users :
            ( /\ lastOp'.op = "reorder_favorites"
              /\ lastOp'.actor = u )
            => LET m == lastOp'.body.orders
                   named == { f \in favorites :
                                f.user = u /\ f.tool \in DOMAIN m }
               IN /\ lastOp'.status = 200
                  /\ \A f \in named :
                        [f EXCEPT !.order = m[f.tool]] \in favorites'
                  /\ \A f \in favorites \ named : f \in favorites'
                  /\ { f.id : f \in favorites' } = { f.id : f \in favorites }
                  /\ Cardinality(favorites') = Cardinality(favorites)
                  /\ lastOp'.body.updated_count = Cardinality(named)
       /\ ReorderApplied(C18_ExampleRows, 2, (1 :> 2) @@ (3 :> 0))
             = C18_ExampleResult]_vars

\* a reorder naming one favorite of the user and one tool the user has not
\* favorited has just changed an order, while another user holds a favorite
C18_Witness ==
    /\ lastOp.op = "reorder_favorites"
    /\ lastOp.body.updated_count = 1
    /\ Cardinality(DOMAIN lastOp.body.orders) = 2
    /\ \E f \in favorites :
          /\ f.user = lastOp.actor
          /\ f.tool \in DOMAIN lastOp.body.orders
          /\ f.order = 2
    /\ \E f \in favorites : f.user # lastOp.actor


\* --------------------------------------------------------------- C17
\* C17: under every interleaving of toggle_favorite calls, two calls of one
\* user on one tool that both found no favorite included, there is at most
\* one favorite row per (user, tool) pair.
C17_OneFavoritePerPair ==
    \A u \in Users, t \in ToolIds : Cardinality(FavoriteRows(u, t)) <= 1

\* the second of two calls that both found no favorite has just failed on
\* the unique constraint
C17_Witness ==
    /\ lastOp.op = "toggle_favorite"
    /\ lastOp.status = 500
    /\ Cardinality(FavoriteRows(lastOp.actor, lastOp.target)) = 1

\* --------------------------------------------------------------- C19
\* C19: a reorder request changes the table in one step only, its write: in
\* that step every favorite it matched that still exists takes its new order
\* value and no other row changes; until then the request has written
\* nothing, whatever the other worker does in between.
C19_ReorderWriteAtomic ==
    [][\A w \in FavWorkers :
          favProc[w].pc = "reorder"
          => IF favProc'[w] = FavIdle
             THEN /\ \A f \in favorites :
                        f.id \in favProc[w].updated
                        => [f EXCEPT !.order = favProc[w].order_map[f.tool]]
                              \in favorites'
                  /\ \A f \in favorites :
                        f.id \notin favProc[w].updated => f \in favorites'
                  /\ Cardinality(favorites') = Cardinality(favorites)
             ELSE favProc'[w] = favProc[w]]_vars

\* a reorder has just rewritten two rows at once while the other worker is
\* in the middle of a request
C19_Witness ==
    /\ lastOp.op = "reorder_favorites"
    /\ lastOp.body.updated_count = 2
    /\ \A f \in FavoritesOf(lastOp.actor) :
          f.order = lastOp.body.orders[f.tool]
    /\ Cardinality(FavoritesOf(lastOp.actor)) = 2
    /\ \E w \in FavWorkers : favProc[w].pc # "idle"


\* --------------------------------------------------------------- C20
AdminOnlyWrites ==
    {"task_create", "team_create", "invite_create", "add_member", "destroy"}

\* C20 as stated: for tools, teams, members, invites and tasks alike, an
\* admin-only write is refused (403) exactly when the user holds none of
\* is_admin, is_superuser, is_staff.
C20_PrivilegedIsAnyFlag ==
    lastOp.op \in AdminOnlyWrites
    => (lastOp.status = 403 <=> ~IsPrivileged(lastOp.actor))

\* the operations of the Django admin site on user rows
AdminSiteOps == {"make_admin", "remove_admin", "change_user"}

\* C21: no request handled by the API (an authentication with any role or
\* none, add_member, change_role, team creation) sets is_admin of a principal
\* back to false; only the admin site does.
C21_IsAdminNeverDemoted ==
    [][lastOp'.op \notin AdminSiteOps =>
         \A u \in Users : users[u].is_admin => users'[u].is_admin]_vars

\* an is_admin principal has just authenticated with a token without a role
C21_Witness ==
    /\ lastOp.op = "authenticate"
    /\ lastOp.body.role = "none"
    /\ users[lastOp.actor].is_admin

\* C22 as stated: add_member and change_role leave the three flags of every
\* principal unchanged.
C22_MemberOpsLeaveFlags ==
    [][lastOp'.op \in {"add_member", "change_role"} => users' = users]_vars

\* C22: add_member and change_role write TeamMember rows only, never change
\* is_superuser or is_staff, and change is_admin in one case only: they set
\* it to true for the principal whose membership they have just written with
\* role admin.
C22_MemberOpsPromoteOnlyForAdminRole ==
    [][lastOp'.op \in {"add_member", "change_role"} =>
         /\ UNCHANGED <<toolVars, favVars, taskVars, docVars, teams, inviteVars,
                        joinRequests, now>>
         /\ \A u \in Users :
              /\ users'[u].is_superuser = users[u].is_superuser
              /\ users'[u].is_staff = users[u].is_staff
              /\ users'[u].is_admin # users[u].is_admin =>
                   /\ u = lastOp'.target
                   /\ lastOp'.status \in {200, 201}
                   /\ users'[u].is_admin
                   /\ \E t \in Teams : members'[<<t, u>>] = "admin"]_vars

\* change_role has just made a member an admin of the team, and the
\* principal's is_admin is set
C22_Witness ==
    /\ lastOp.op = "change_role"
    /\ lastOp.status = 200
    /\ \E t \in Teams : members[<<t, lastOp.target>>] = "admin"
    /\ users[lastOp.target].is_admin
    /\ ~users[lastOp.target].is_staff

\* C23: a request of a principal without any admin flag creates no task,
\* deletes no task, and changes no title and no creator of a task.
C23_NonAdminWritesOnlyStatus ==
    [][(lastOp'.actor \in Users /\ NonPrivileged(lastOp'.actor)) =>
         \A t \in TaskIds :
            /\ TaskExists(t)' <=> TaskExists(t)
            /\ TaskExists(t) =>
                 /\ tasks'[t].title = tasks[t].title
                 /\ tasks'[t].created_by = tasks[t].created_by]_vars

\* C28: for tasks created with status todo and changed through update_status
\* only, after every step completed_at is set exactly when the status is
\* completed, archived_at is set exactly when the status is archived, and a
\* started_at that is set keeps its value.
C28_StatusTimestamps ==
    [][\A t \in TaskIds :
         TaskExists(t)' =>
           /\ tasks'[t].completed_at # NoTime <=> tasks'[t].status = "completed"
           /\ tasks'[t].archived_at # NoTime <=> tasks'[t].status = "archived"
           /\ (TaskExists(t) /\ tasks[t].started_at # NoTime) =>
                 tasks'[t].started_at = tasks[t].started_at]_vars

\* update_status has just moved a task that was started earlier, and completed
\* in between, back to in_progress
C28_Witness ==
    /\ lastOp.op = "update_status"
    /\ lastOp.status = 200
    /\ lastOp.body.status = "in_progress"
    /\ tasks[lastOp.target].status = "in_progress"
    /\ tasks[lastOp.target].started_at # NoTime
    /\ tasks[lastOp.target].started_at < now
    /\ tasks[lastOp.target].completed_at = NoTime

\* C29: for every task row and every new status, the row perform_update
\* saves and the row update_status saves have the same started_at,
\* completed_at and archived_at.
C29_UpdatePathsAgree ==
    \A t \in TaskIds : \A st \in TaskStatuses :
        TaskExists(t) =>
          LET a == perform_update(tasks[t], tasks[t].title, st, now)
              b == update_status_row(tasks[t], st, now)
          IN /\ a.started_at = b.started_at
             /\ a.completed_at = b.completed_at
             /\ a.archived_at = b.archived_at

\* C24: no response of list or favorites holds a personal tool that another
\* principal created.
C24_CollectionsHideOthersPersonal ==
    lastOp.op \in {"list", "favorites"} =>
       \A t \in lastOp.result :
          ~(tools[t].is_personal /\ tools[t].created_by # lastOp.actor)

\* C27: toggle_favorite by a principal who holds a favorite on the tool
\* succeeds and deletes that favorite, whatever the tool has become.
C27_HolderCanRemove ==
    [][\A u \in Users, t \in ToolIds :
         (/\ lastOp'.op = "toggle_favorite"
          /\ lastOp'.actor = u
          /\ lastOp'.target = t
          /\ FavoriteRows(u, t) # {})
         => /\ lastOp'.status = 200
            /\ FavoriteRows(u, t)' = {}]_vars

\* C25: approve or reject by a principal who holds the admin role on the team
\* of a pending join request is answered 200, whatever the principal's three
\* flags are (for approve, of a requester who is not yet a member).
C25_TeamAdminCanReview ==
    [][\A u \in Users, k \in JoinKeys :
          ( /\ lastOp'.op \in {"join_approve", "join_reject"}
            /\ lastOp'.actor = u
            /\ lastOp'.target = JoinPk(k)
            /\ IsTeamAdmin(k[1], u)
            /\ joinRequests[k] = "pending"
            /\ ~IsMember(k[1], k[2]) )
          => lastOp'.status = 200]_vars

\* C26: a create by a principal whose earlier request for the team was
\* rejected or cancelled, and who is not a member of the team, is answered
\* 201 and leaves a pending request.
C26_CreateAgainAfterRefusal ==
    [][\A u \in Users, t \in Teams :
          ( /\ lastOp'.op = "join_create"
            /\ lastOp'.actor = u
            /\ lastOp'.target = JoinPk(<<t, u>>)
            /\ t \in teams
            /\ joinRequests[<<t, u>>] \in {"rejected", "cancelled"}
            /\ ~IsMember(t, u) )
          => /\ lastOp'.status = 201
             /\ joinRequests'[<<t, u>>] = "pending"]_vars

\* C30: confirm_upload changes the status of a document to uploaded only
\* when the document is pending; a document in error, processing or ready
\* is never set back to uploaded.
C30_ConfirmOnlyFromPending ==
    [][\A d \in DocIds :
         (documents'[d] = "uploaded" /\ documents[d] # "uploaded")
            => documents[d] = "pending"]_vars

============================================================================
